---- MODULE Spec2Model ----
(***************************************************************************)
(* The BUK booking protocol: the BukTrips factory (booking orchestrator),  *)
(* the per-supplier SupplierContract (token ledger) and the paired         *)
(* SupplierUtilityContract (utility ledger).                               *)
(*                                                                         *)
(* Every external function is one action.  A call that reverts leaves the  *)
(* contract state as it was (the EVM rolls the transaction back); `last`   *)
(* records the last call that went through.  The currency (IERC20) and the *)
(* treasury are collaborators outside the repository: a transferFrom       *)
(* returns true (and moves the amount), returns false (and moves nothing)  *)
(* or reverts, the choice being the ledger's; a treasury refund is         *)
(* recorded as an instruction.                                             *)
(***************************************************************************)
EXTENDS Integers, Sequences, FiniteSets, TLC

\* ------------------------------------------------------------------ bounds
MaxBookings == 2
MaxSuppliers == 2
MaxBatch == 2
\* Configuration changes (and clock advances), and token transfers, in one
\* behaviour.
MaxChanges == 1
MaxTransfers == 1

\* ------------------------------------------------------- program constants
BatchLimit == 11
DefaultCommission == 5
SecondsPerHour == 3600
Uint8Max == 255

\* ---------------------------------------------------------------- universe
ZERO == "0x0"
ADMIN == "admin"
Users == {"u1", "u2"}
Callers == {ADMIN} \cup Users
BUK_WALLET == "wallet"
TreasuryAddrs == {"treasury", "treasury2"}
CurAccts == Users \cup {BUK_WALLET} \cup TreasuryAddrs
SUPPLIER_DEPLOYER == "supplierDeployer"
UTILITY_DEPLOYER == "utilityDeployer"
SUPPLIER_OWNER == "supplierOwner"
SupplierOwners == {SUPPLIER_OWNER, "supplierOwner2"}
\* The BukTrips contract itself, as the caller of the ledgers.
FACTORY == "factory"
\* The accounts that may call a ledger directly.
Outsiders == Callers \cup SupplierOwners

BookingIdSet == 1..MaxBookings
SupplierIdSet == 1..MaxSuppliers
Times == {0, 3600}
CheckinTimes == {7200}
CheckoutTimes == {10800}
Totals == {100}
BaseRates == {100}
Commissions == {5, 10}
LockHours == {0, 1}
\* Rates that a percentage truncates, and locks and times on both sides of a
\* check-in.
RateSamples == {100, 101, 200}
LockSamples == {0, 1, 2, 3}
TimeSamples == {0, 3600, 7200}
Names == {"n1"}

VARIABLES
    bookingIds,       \* _bookingIds
    BookingDetails,   \* booking id -> Booking
    supplierIds,      \* _supplierIds
    Suppliers,        \* supplier id -> SupplierDetails
    commission,
    treasury,
    deployers,        \* <<supplier_deployer, utility_deployer>>
    TimeLocks,        \* supplier id -> nft id -> seconds
    now,              \* block.timestamp
    balances,         \* SupplierContract s: token id -> holder -> amount
    bookingTickets,   \* SupplierContract s: token id -> uri
    transferable,     \* SupplierContract s: token id -> bool
    details,          \* SupplierContract/utility s: Details.name
    utilBalances,     \* SupplierUtilityContract s: token id -> holder -> amount
    utilTickets,      \* SupplierUtilityContract s: token id -> uri
    approvals,        \* SupplierContract s: set of <<holder, operator>>
    cur,              \* the currency ledger's balances
    spent,            \* how many changes and transfers the behaviour has made
    last              \* the last call that wrote bookings, suppliers or ledgers

orchVars == <<bookingIds, BookingDetails, supplierIds, Suppliers, commission,
              treasury, deployers, TimeLocks>>
tokenVars == <<balances, bookingTickets, transferable, details, approvals>>
utilVars == <<utilBalances, utilTickets>>
stateVars == <<orchVars, tokenVars, utilVars, cur, now>>
vars == <<stateVars, last, spent>>

\* ----------------------------------------------------------------- records
NilBooking ==
    [id |-> 0, status |-> "nil", tokenID |-> 0, owner |-> ZERO, supplierId |-> 0,
     checkin |-> 0, checkout |-> 0, total |-> 0, baseRate |-> 0]

NilSupplier ==
    [id |-> 0, status |-> FALSE, supplier_contract |-> 0, supplier_owner |-> ZERO,
     utility_contract |-> 0]

\* BookingDetails[id] of the Solidity mapping: the zero record where unset.
Booking(id) == IF id \in DOMAIN BookingDetails THEN BookingDetails[id] ELSE NilBooking

\* Suppliers[id] of the Solidity mapping.
Supplier(id) == IF id \in DOMAIN Suppliers THEN Suppliers[id] ELSE NilSupplier

NoCall == [op |-> "none", res |-> "ok", sup |-> 0, ids |-> <<>>,
           uris |-> <<>>, flag |-> FALSE, xfers |-> <<>>, refunds |-> <<>>]

\* A role every account holds.
hasAdminRoleAnyone(a) == a \in Callers

hasAdminRole(a) == a = ADMIN

Init ==
    /\ bookingIds = 0
    /\ BookingDetails = [i \in BookingIdSet |-> NilBooking]
    /\ supplierIds = 0
    /\ Suppliers = [s \in SupplierIdSet |-> NilSupplier]
    /\ commission = DefaultCommission
    /\ treasury = "treasury"
    /\ deployers = <<ZERO, ZERO>>
    /\ TimeLocks = [s \in SupplierIdSet |-> [i \in BookingIdSet |-> 0]]
    /\ now = 0
    /\ balances = [s \in SupplierIdSet |-> [i \in BookingIdSet |-> [a \in Callers |-> 0]]]
    /\ bookingTickets = [s \in SupplierIdSet |-> [i \in BookingIdSet |-> ""]]
    /\ transferable = [s \in SupplierIdSet |-> [i \in BookingIdSet |-> FALSE]]
    /\ details = [s \in SupplierIdSet |-> ""]
    /\ utilBalances = [s \in SupplierIdSet |-> [i \in BookingIdSet |-> [a \in Callers |-> 0]]]
    /\ utilTickets = [s \in SupplierIdSet |-> [i \in BookingIdSet |-> ""]]
    /\ approvals = [s \in SupplierIdSet |-> {}]
    /\ cur = [a \in CurAccts |-> IF a \in Users THEN 210 ELSE 100]
    /\ last = NoCall
    /\ spent = [changes |-> 0, transfers |-> 0]

\* ------------------------------------------- the world a call works on
\* The contract storage a booking call reads and writes, with `ok` turning
\* FALSE when a nested call reverts (the whole transaction then reverts).
World ==
    [bd |-> BookingDetails, bal |-> balances, uri |-> bookingTickets,
     tr |-> transferable, ubal |-> utilBalances, uuri |-> utilTickets, ok |-> TRUE]

\* ------------------------------------- SupplierUtilityContract (ledger s)
\* mint: _mint(account, _id, amount), then _setURI(_id, _newuri).
UtilityMint(w, s, account, id, amount, newuri) ==
    [w EXCEPT !.ubal[s][id][account] = @ + amount, !.uuri[s][id] = newuri]

\* ---------------------------------------------- SupplierContract (ledger s)
\* A mint that forgets the uri.
MintWithoutURI(w, s, id, account, amount, newuri, status) ==
    [w EXCEPT !.tr[s][id] = status, !.bal[s][id][account] = @ + amount]

\* mint: transferable[_id] = _status; _mint; _setURI.
Mint(w, s, id, account, amount, newuri, status) ==
    [w EXCEPT !.tr[s][id] = status,
              !.bal[s][id][account] = @ + amount,
              !.uri[s][id] = newuri]

\* burn: capture and clear the uri, mint on the utility contract when asked,
\* then _burn, which reverts when the account holds less than amount.
Burn(w, s, account, id, amount, utility) ==
    LET uri_ == w.uri[s][id]
        w1 == [w EXCEPT !.uri[s][id] = ""]
        w2 == IF utility THEN UtilityMint(w1, s, account, id, amount, uri_) ELSE w1
    IN  IF w2.bal[s][id][account] >= amount
        THEN [w2 EXCEPT !.bal[s][id][account] = @ - amount]
        ELSE [w2 EXCEPT !.ok = FALSE]

\* -------------------------------------------------------- currency ledger
\* IERC20.transferFrom(from, to, amount) answers true, with the amount moved,
\* or false, with nothing moved, or reverts (and the calling transaction with
\* it); the answer is the ledger's own (allowance, pause, balance).
Answers == {"true", "false", "revert"}

TransferFrom(c, from, to, amount, answer) ==
    IF answer = "true" /\ c[from] >= amount
    THEN [cur |-> [c EXCEPT ![from] = @ - amount, ![to] = @ + amount],
          ok |-> TRUE, reverted |-> FALSE]
    ELSE [cur |-> c, ok |-> FALSE, reverted |-> answer = "revert"]

Xfer(from, to, amount, ok) == [from |-> from, to |-> to, amount |-> amount, ok |-> ok]

Refund(amount, to) == [amount |-> amount, to |-> to, treasury |-> treasury]

\* ------------------------------------------------------------- helpers
RECURSIVE SumTotals(_, _)
SumTotals(totals, n) == IF n = 0 THEN 0 ELSE SumTotals(totals, n - 1) + totals[n]

\* A commission rounded up, room by room.
RECURSIVE SumCommissionRoundedUp(_, _, _)
SumCommissionRoundedUp(rates, pct, n) ==
    IF n = 0 THEN 0
    ELSE SumCommissionRoundedUp(rates, pct, n - 1) + (rates[n] * pct + 99) \div 100

\* commissionTotal += _baseRate[i]*commission/100, truncating per room.
RECURSIVE SumCommission(_, _, _)
SumCommission(rates, pct, n) ==
    IF n = 0 THEN 0 ELSE SumCommission(rates, pct, n - 1) + (rates[n] * pct) \div 100

AllBooked(ids) == \A i \in 1..Len(ids) : Booking(ids[i]).status = "booked"
AllConfirmed(ids) == \A i \in 1..Len(ids) : Booking(ids[i]).status = "confirmed"
AllOwnedBy(ids, a) == \A i \in 1..Len(ids) : Booking(ids[i]).owner = a

\* ============================ BukTrips: the calls, as functions of the state
\* Each returns the outcome (`res`) and the storage the call leaves behind.

\* A bookRoom that numbers the rooms of every call from 1.
NewBookingsFromOne(caller, sup, count, totals, rates, checkin, checkoutAt) ==
    [i \in BookingIdSet |->
        IF i <= count
        THEN [id |-> i, status |-> "booked", tokenID |-> 0, owner |-> caller,
              supplierId |-> sup, checkin |-> checkin, checkout |-> checkoutAt,
              total |-> totals[i], baseRate |-> rates[i]]
        ELSE BookingDetails[i]]

\* bookRoom's loop: one Booking per room, ids taken from the counter.
NewBookings(caller, sup, count, totals, rates, checkin, checkoutAt) ==
    [i \in BookingIdSet |->
        IF i > bookingIds /\ i <= bookingIds + count
        THEN [id |-> i, status |-> "booked", tokenID |-> 0, owner |-> caller,
              supplierId |-> sup, checkin |-> checkin, checkout |-> checkoutAt,
              total |-> totals[i - bookingIds], baseRate |-> rates[i - bookingIds]]
        ELSE BookingDetails[i]]

\* A bookRoom that returns the commission to nobody when the payment fails.
BookRoomPaymentNoReturn(caller, total, commissionTotal, outs) ==
    LET t1 == TransferFrom(cur, caller, BUK_WALLET, commissionTotal, outs[1])
        t2 == TransferFrom(t1.cur, caller, treasury, total, outs[2])
        x1 == Xfer(caller, BUK_WALLET, commissionTotal, t1.ok)
        x2 == Xfer(caller, treasury, total, t2.ok)
    IN  IF t1.ok
        THEN [ret |-> t2.ok, reverted |-> t2.reverted, cur |-> t2.cur, xfers |-> <<x1, x2>>]
        ELSE [ret |-> FALSE, reverted |-> t1.reverted, cur |-> t1.cur, xfers |-> <<x1>>]

\* bookRoom's payment: the commission to the wallet, then the total to the
\* treasury; on a failure the transfers the code issues in return.
\* outs = <<commission, payment, commission back, payment back>>: the
\* currency ledger's answers to the transfers the call issues.
BookRoomPayment(caller, total, commissionTotal, outs) ==
    LET t1 == TransferFrom(cur, caller, BUK_WALLET, commissionTotal, outs[1])
        t2 == TransferFrom(t1.cur, caller, treasury, total, outs[2])
        t3 == TransferFrom(IF t1.ok THEN t2.cur ELSE t1.cur,
                           BUK_WALLET, caller, commissionTotal, outs[3])
        t4 == TransferFrom(t3.cur, treasury, caller, total, outs[4])
        x1 == Xfer(caller, BUK_WALLET, commissionTotal, t1.ok)
        x2 == Xfer(caller, treasury, total, t2.ok)
        x3 == Xfer(BUK_WALLET, caller, commissionTotal, t3.ok)
        x4 == Xfer(treasury, caller, total, t4.ok)
    IN  IF t1.ok /\ t2.ok
        THEN [ret |-> TRUE, reverted |-> FALSE, cur |-> t2.cur, xfers |-> <<x1, x2>>]
        ELSE IF t1.ok
        THEN [ret |-> FALSE, reverted |-> t2.reverted \/ t3.reverted \/ t4.reverted,
              cur |-> t4.cur, xfers |-> <<x1, x2, x3, x4>>]
        ELSE [ret |-> FALSE, reverted |-> t1.reverted \/ t3.reverted,
              cur |-> t3.cur, xfers |-> <<x1, x3>>]

\* A bookRoom that does not look at the supplier.
bookRoomRevertsAnySupplier(sup, count, totals, rates) ==
    \/ count > Len(totals)
    \/ count > Len(rates)
    \/ count > Uint8Max

\* bookRoom reverts for an unregistered supplier, for an array shorter than
\* _count (index out of bounds) and when the uint8 loop counter overflows.
bookRoomReverts(sup, count, totals, rates) ==
    \/ ~Supplier(sup).status
    \/ count > Len(totals)
    \/ count > Len(rates)
    \/ count > Uint8Max

\* confirmRoom accepting a batch of BatchLimit ids.
confirmRoomRequiresOffByOne(caller, sup, ids, uris) ==
    /\ Supplier(sup).status
    /\ Len(ids) <= Uint8Max
    /\ AllBooked(ids)
    /\ AllOwnedBy(ids, caller)
    /\ Len(ids) = Len(uris)
    /\ Len(ids) <= BatchLimit

\* confirmRoom's requires, in the order of the code (the order does not show:
\* a revert undoes everything).
confirmRoomRequires(caller, sup, ids, uris) ==
    /\ Supplier(sup).status
    /\ Len(ids) <= Uint8Max
    /\ AllBooked(ids)
    /\ AllOwnedBy(ids, caller)
    /\ Len(ids) = Len(uris)
    /\ Len(ids) < BatchLimit

\* A confirmRoom that leaves the token id of the booking unset.
ConfirmItemNoTokenId(w, sc, id, uri, status) ==
    LET w1 == [w EXCEPT !.bd[id].status = "confirmed"]
    IN  Mint(w1, sc, id, w1.bd[id].owner, 1, uri, status)

\* The body of confirmRoom's second loop, for one id.
ConfirmItem(w, sc, id, uri, status) ==
    LET w1 == [w EXCEPT !.bd[id].status = "confirmed"]
        w2 == Mint(w1, sc, id, w1.bd[id].owner, 1, uri, status)
    IN  [w2 EXCEPT !.bd[id].tokenID = id]

\* confirmRoom's second loop, items i..len.
RECURSIVE ConfirmLoop(_, _, _, _, _, _)
ConfirmLoop(w, sc, ids, uris, status, i) ==
    IF i > Len(ids) THEN w
    ELSE ConfirmLoop(ConfirmItem(w, sc, ids[i], uris[i], status), sc, ids, uris, status, i + 1)

confirmRoom(caller, sup, ids, uris, status) ==
    IF confirmRoomRequires(caller, sup, ids, uris)
    THEN ConfirmLoop(World, Supplier(sup).supplier_contract, ids, uris, status, 1)
    ELSE [World EXCEPT !.ok = FALSE]

\* A checkout any caller may make.
checkoutRequiresAnyCaller(caller, sup, ids) ==
    /\ Supplier(sup).status
    /\ Len(ids) < BatchLimit
    /\ AllConfirmed(ids)

checkoutRequires(caller, sup, ids) ==
    /\ hasAdminRole(caller)
    /\ Supplier(sup).status
    /\ Len(ids) < BatchLimit
    /\ AllConfirmed(ids)

\* The body of checkout's second loop, for one id.
\* A checkout item that also clears the total of the booking.
CheckoutItemClearsTotal(w, sc, id) ==
    LET w1 == [w EXCEPT !.bd[id].status = "expired", !.bd[id].total = 0]
    IN  Burn(w1, sc, w1.bd[id].owner, id, 1, TRUE)

CheckoutItem(w, sc, id) ==
    LET w1 == [w EXCEPT !.bd[id].status = "expired"]
    IN  Burn(w1, sc, w1.bd[id].owner, id, 1, TRUE)

\* checkout's second loop, items i..len; a burn that reverts ends the call.
RECURSIVE CheckoutLoop(_, _, _, _)
CheckoutLoop(w, sc, ids, i) ==
    IF i > Len(ids) \/ ~w.ok THEN w
    ELSE CheckoutLoop(CheckoutItem(w, sc, ids[i]), sc, ids, i + 1)

checkout(caller, sup, ids) ==
    IF checkoutRequires(caller, sup, ids)
    THEN CheckoutLoop(World, Supplier(sup).supplier_contract, ids, 1)
    ELSE [World EXCEPT !.ok = FALSE]

cancelRoomRequires(caller, sup, id) ==
    /\ hasAdminRole(caller)
    /\ Supplier(sup).status
    /\ Booking(id).status = "confirmed"

\* A cancelRoom that burns as checkout does, issuing a utility token.
cancelRoomIssuingUtility(caller, sup, id) ==
    IF cancelRoomRequires(caller, sup, id)
    THEN LET w1 == [World EXCEPT !.bd[id].status = "cancelled"]
         IN  Burn(w1, Supplier(sup).supplier_contract, w1.bd[id].owner, id, 1, TRUE)
    ELSE [World EXCEPT !.ok = FALSE]

cancelRoom(caller, sup, id) ==
    IF cancelRoomRequires(caller, sup, id)
    THEN LET w1 == [World EXCEPT !.bd[id].status = "cancelled"]
         IN  Burn(w1, Supplier(sup).supplier_contract, w1.bd[id].owner, id, 1, FALSE)
    ELSE [World EXCEPT !.ok = FALSE]

\* A cancelRoom that refunds the booking owner before the supplier owner.
cancelRoomRefundsOwnerFirst(id, penalty, refund, charges) ==
    <<Refund(refund, Booking(id).owner),
      Refund(penalty, Supplier(Booking(id).supplierId).supplier_owner),
      Refund(charges, BUK_WALLET)>>

\* cancelRoom's three refund instructions, in the order issued.
cancelRoomRefunds(id, penalty, refund, charges) ==
    <<Refund(penalty, Supplier(Booking(id).supplierId).supplier_owner),
      Refund(refund, Booking(id).owner),
      Refund(charges, BUK_WALLET)>>

\* A bookingRefund that does not look at the status of the bookings.
bookingRefundRequiresAnyStatus(caller, sup, ids, owner) ==
    /\ hasAdminRole(caller)
    /\ Supplier(sup).status
    /\ Len(ids) <= Uint8Max
    /\ AllOwnedBy(ids, owner)

bookingRefundRequires(caller, sup, ids, owner) ==
    /\ hasAdminRole(caller)
    /\ Supplier(sup).status
    /\ Len(ids) <= Uint8Max
    /\ AllBooked(ids)
    /\ AllOwnedBy(ids, owner)

\* A bookingRefund that refunds the totals without the commission.
RECURSIVE RefundTotalWithoutCommission(_, _)
RefundTotalWithoutCommission(ids, n) ==
    IF n = 0 THEN 0
    ELSE RefundTotalWithoutCommission(ids, n - 1) + Booking(ids[n]).total

\* bookingRefund's third loop: the sum refunded, at the commission of now.
RECURSIVE RefundTotal(_, _)
RefundTotal(ids, n) ==
    IF n = 0 THEN 0
    ELSE RefundTotal(ids, n - 1) + Booking(ids[n]).total
             + (Booking(ids[n]).baseRate * commission) \div 100

RefundedBookings(ids) ==
    [i \in BookingIdSet |->
        IF \E k \in 1..Len(ids) : ids[k] = i
        THEN [BookingDetails[i] EXCEPT !.status = "cancelled"]
        ELSE BookingDetails[i]]

\* A toggleNFTStatus open to every caller.
toggleNFTStatusRequiresAnyCaller(caller, id) ==
    /\ Booking(id).tokenID > 0
    /\ Booking(id).checkin >= TimeLocks[Booking(id).supplierId][id]
    /\ now < Booking(id).checkin - TimeLocks[Booking(id).supplierId][id]

\* A toggleNFTStatus still open at the threshold.
toggleNFTStatusRequiresAtThreshold(caller, id) ==
    /\ hasAdminRole(caller) \/ caller = Booking(id).owner
    /\ Booking(id).tokenID > 0
    /\ Booking(id).checkin >= TimeLocks[Booking(id).supplierId][id]
    /\ now <= Booking(id).checkin - TimeLocks[Booking(id).supplierId][id]

\* toggleNFTStatus: checkAccess, the token exists, and the time lock; the
\* subtraction is checked (0.8.9) and reverts when the lock exceeds checkin.
toggleNFTStatusRequires(caller, id) ==
    /\ hasAdminRole(caller) \/ caller = Booking(id).owner
    /\ Booking(id).tokenID > 0
    /\ Booking(id).checkin >= TimeLocks[Booking(id).supplierId][id]
    /\ now < Booking(id).checkin - TimeLocks[Booking(id).supplierId][id]

\* ================================================================ actions
Call(op) == [NoCall EXCEPT !.op = op]

\* Write a world back to the storage it was read from.
Store(w) ==
    /\ BookingDetails' = w.bd
    /\ balances' = w.bal
    /\ bookingTickets' = w.uri
    /\ transferable' = w.tr
    /\ utilBalances' = w.ubal
    /\ utilTickets' = w.uuri

\* A reverted call leaves nothing behind, not even its events.
Revert == UNCHANGED <<stateVars, last>>

SetDeployers(caller, sd, ud) ==
    IF hasAdminRole(caller)
    THEN /\ deployers' = <<sd, ud>>
         /\ UNCHANGED last
         /\ UNCHANGED <<bookingIds, BookingDetails, supplierIds, Suppliers, commission,
                        treasury, TimeLocks, tokenVars, utilVars, cur, now>>
    ELSE Revert

SetTreasury(caller, t) ==
    IF hasAdminRole(caller)
    THEN /\ treasury' = t
         /\ UNCHANGED last
         /\ UNCHANGED <<bookingIds, BookingDetails, supplierIds, Suppliers, commission,
                        deployers, TimeLocks, tokenVars, utilVars, cur, now>>
    ELSE Revert

\* The call into Suppliers[_supplierId].supplier_contract reverts when no
\* contract was recorded for the id.
UpdateSupplierDetails(caller, sup, name) ==
    IF hasAdminRole(caller) /\ Supplier(sup).supplier_contract # 0
    THEN /\ details' = [details EXCEPT ![Supplier(sup).supplier_contract] = name]
         /\ UNCHANGED last
         /\ UNCHANGED <<orchVars, balances, bookingTickets, transferable, approvals,
                        utilVars, cur, now>>
    ELSE Revert

\* commission is a uint8.
SetCommission(caller, pct) ==
    IF hasAdminRole(caller)
    THEN /\ commission' = pct % (Uint8Max + 1)
         /\ UNCHANGED last
         /\ UNCHANGED <<bookingIds, BookingDetails, supplierIds, Suppliers, treasury,
                        deployers, TimeLocks, tokenVars, utilVars, cur, now>>
    ELSE Revert

\* A setTransferLock that stores the hours as they come.
SetTransferLockInHours(caller, sup, id, hours) ==
    IF hasAdminRole(caller)
    THEN /\ TimeLocks' = [TimeLocks EXCEPT ![sup][id] = hours]
         /\ UNCHANGED last
         /\ UNCHANGED <<bookingIds, BookingDetails, supplierIds, Suppliers, commission,
                        treasury, deployers, tokenVars, utilVars, cur, now>>
    ELSE Revert

SetTransferLock(caller, sup, id, hours) ==
    IF hasAdminRole(caller)
    THEN /\ TimeLocks' = [TimeLocks EXCEPT ![sup][id] = SecondsPerHour * hours]
         /\ UNCHANGED last
         /\ UNCHANGED <<bookingIds, BookingDetails, supplierIds, Suppliers, commission,
                        treasury, deployers, tokenVars, utilVars, cur, now>>
    ELSE Revert

ToggleNFTStatus(caller, id, status) ==
    IF toggleNFTStatusRequires(caller, id)
    THEN LET sc == Supplier(Booking(id).supplierId).supplier_contract
         IN  /\ transferable' = [transferable EXCEPT ![sc][id] = status]
             /\ last' = [Call("toggleNFTStatus") EXCEPT
                            !.sup = Booking(id).supplierId, !.ids = <<id>>,
                            !.flag = status]
             /\ UNCHANGED <<orchVars, balances, bookingTickets, details, approvals,
                            utilVars, cur, now>>
    ELSE Revert

\* A registerSupplier whose deployer hands out one token ledger to all.
RegisterSupplierSharedLedger(caller, owner) ==
    IF hasAdminRole(caller) /\ deployers[1] # ZERO /\ deployers[2] # ZERO
    THEN LET s == supplierIds + 1
         IN  /\ supplierIds' = s
             /\ Suppliers' = [Suppliers EXCEPT ![s] =
                    [id |-> s, status |-> TRUE, supplier_contract |-> 1,
                     supplier_owner |-> owner, utility_contract |-> s]]
             /\ last' = [Call("registerSupplier") EXCEPT !.sup = s]
             /\ UNCHANGED <<bookingIds, BookingDetails, commission, treasury, deployers,
                            TimeLocks, tokenVars, utilVars, cur, now>>
    ELSE Revert

\* registerSupplier: both deployers must be set (a call to the zero address
\* reverts); the two contracts deployed for id s are ledger s and utility s.
RegisterSupplier(caller, owner) ==
    IF hasAdminRole(caller) /\ deployers[1] # ZERO /\ deployers[2] # ZERO
    THEN LET s == supplierIds + 1
         IN  /\ supplierIds' = s
             /\ Suppliers' = [Suppliers EXCEPT ![s] =
                    [id |-> s, status |-> TRUE, supplier_contract |-> s,
                     supplier_owner |-> owner, utility_contract |-> s]]
             /\ last' = [Call("registerSupplier") EXCEPT !.sup = s]
             /\ UNCHANGED <<bookingIds, BookingDetails, commission, treasury, deployers,
                            TimeLocks, tokenVars, utilVars, cur, now>>
    ELSE Revert

BookRoom(caller, sup, count, totals, rates, checkin, checkoutAt, outs) ==
    LET pay == BookRoomPayment(caller, SumTotals(totals, count),
                               SumCommission(rates, commission, count), outs)
    IN  IF bookRoomReverts(sup, count, totals, rates) \/ pay.reverted
        THEN Revert
        ELSE /\ bookingIds' = bookingIds + count
             /\ BookingDetails' =
                    NewBookings(caller, sup, count, totals, rates, checkin, checkoutAt)
             /\ cur' = pay.cur
             /\ last' = [Call("bookRoom") EXCEPT
                            !.res = IF pay.ret THEN "ok" ELSE "false",
                            !.sup = sup,
                            !.ids = [i \in 1..count |-> bookingIds + i],
                            !.xfers = pay.xfers]
             /\ UNCHANGED <<supplierIds, Suppliers, commission, treasury, deployers,
                            TimeLocks, tokenVars, utilVars, now>>

BookingRefund(caller, sup, ids, owner) ==
    IF bookingRefundRequires(caller, sup, ids, owner)
    THEN /\ BookingDetails' = RefundedBookings(ids)
         /\ last' = [Call("bookingRefund") EXCEPT
                        !.sup = sup, !.ids = ids,
                        !.refunds = <<Refund(RefundTotal(ids, Len(ids)), owner)>>]
         /\ UNCHANGED <<bookingIds, supplierIds, Suppliers, commission, treasury,
                        deployers, TimeLocks, tokenVars, utilVars, cur, now>>
    ELSE Revert

ConfirmRoom(caller, sup, ids, uris, status) ==
    LET w == confirmRoom(caller, sup, ids, uris, status)
    IN  IF w.ok
        THEN /\ Store(w)
             /\ last' = [Call("confirmRoom") EXCEPT
                            !.sup = sup, !.ids = ids, !.uris = uris, !.flag = status]
             /\ UNCHANGED <<bookingIds, supplierIds, Suppliers, commission, treasury,
                            deployers, TimeLocks, details, approvals, cur, now>>
        ELSE Revert

Checkout(caller, sup, ids) ==
    LET w == checkout(caller, sup, ids)
    IN  IF w.ok
        THEN /\ Store(w)
             /\ last' = [Call("checkout") EXCEPT !.sup = sup, !.ids = ids]
             /\ UNCHANGED <<bookingIds, supplierIds, Suppliers, commission, treasury,
                            deployers, TimeLocks, details, approvals, cur, now>>
        ELSE Revert

CancelRoom(caller, sup, id, penalty, refund, charges) ==
    LET w == cancelRoom(caller, sup, id)
    IN  IF w.ok
        THEN /\ Store(w)
             /\ last' = [Call("cancelRoom") EXCEPT
                            !.sup = sup, !.ids = <<id>>,
                            !.refunds = cancelRoomRefunds(id, penalty, refund, charges)]
             /\ UNCHANGED <<bookingIds, supplierIds, Suppliers, commission, treasury,
                            deployers, TimeLocks, details, approvals, cur, now>>
        ELSE Revert

\* ------------------------------------------ SupplierContract: the holders
isApprovedForAll(s, account, operator) == <<account, operator>> \in approvals[s]

\* A transfer that does not look at the transferability flag.
safeTransferFromRequiresNoFlag(caller, s, from, id, amount) ==
    /\ from = caller \/ isApprovedForAll(s, from, caller)
    /\ balances[s][id][from] >= amount

\* _safeTransferFrom reverts on a balance below the amount.
safeTransferFromRequires(caller, s, from, id, amount) ==
    /\ transferable[s][id]
    /\ from = caller \/ isApprovedForAll(s, from, caller)
    /\ balances[s][id][from] >= amount

SafeTransferFrom(caller, s, from, to, id, amount) ==
    IF safeTransferFromRequires(caller, s, from, id, amount)
    THEN /\ balances' = [balances EXCEPT ![s][id] =
                [[@ EXCEPT ![from] = @ - amount] EXCEPT ![to] = @ + amount]]
         /\ last' = [Call("safeTransferFrom") EXCEPT
                        !.sup = s, !.ids = <<id>>,
                        !.xfers = <<Xfer(from, to, amount, TRUE)>>]
         /\ UNCHANGED <<orchVars, bookingTickets, transferable, details, approvals,
                        utilVars, cur, now>>
    ELSE Revert

\* setApprovalForAll of the ERC1155 base, on a deployed ledger: the caller
\* approves, or stops approving, an operator other than itself.
SetApprovalForAll(caller, s, operator, approved) ==
    IF s <= supplierIds /\ caller # operator
    THEN /\ approvals' = [approvals EXCEPT ![s] =
                IF approved THEN @ \cup {<<caller, operator>>}
                            ELSE @ \ {<<caller, operator>>}]
         /\ last' = [Call("setApprovalForAll") EXCEPT !.sup = s, !.flag = approved]
         /\ UNCHANGED <<orchVars, balances, bookingTickets, transferable, details,
                        utilVars, cur, now>>
    ELSE Revert

\* _safeBatchTransferFrom of the ERC1155 base, items i..len on the balances of
\* one ledger: each item moves its amount, and an item the sender cannot cover
\* reverts the call.
RECURSIVE BatchMove(_, _, _, _, _, _)
BatchMove(bal, from, to, ids, amounts, i) ==
    IF i > Len(ids) THEN [bal |-> bal, ok |-> TRUE]
    ELSE IF bal[ids[i]][from] < amounts[i] THEN [bal |-> bal, ok |-> FALSE]
    ELSE BatchMove([bal EXCEPT ![ids[i]] =
                       [[@ EXCEPT ![from] = @ - amounts[i]] EXCEPT ![to] = @ + amounts[i]]],
                   from, to, ids, amounts, i + 1)

\* A batch transfer that looks at the flag of its first id only.
safeBatchTransferFromRequiresFirstFlag(caller, s, from, to, ids, amounts) ==
    /\ Len(ids) < BatchLimit
    /\ Len(ids) > 0 => transferable[s][ids[1]]
    /\ from = caller \/ isApprovedForAll(s, from, caller)
    /\ Len(ids) = Len(amounts)
    /\ to # ZERO
    /\ BatchMove(balances[s], from, to, ids, amounts, 1).ok

safeBatchTransferFromRequires(caller, s, from, to, ids, amounts) ==
    /\ Len(ids) < BatchLimit
    /\ \A i \in 1..Len(ids) : transferable[s][ids[i]]
    /\ from = caller \/ isApprovedForAll(s, from, caller)
    /\ Len(ids) = Len(amounts)
    /\ to # ZERO
    /\ BatchMove(balances[s], from, to, ids, amounts, 1).ok

SafeBatchTransferFrom(caller, s, from, to, ids, amounts) ==
    IF safeBatchTransferFromRequires(caller, s, from, to, ids, amounts)
    THEN /\ balances' = [balances EXCEPT ![s] =
                BatchMove(balances[s], from, to, ids, amounts, 1).bal]
         /\ last' = [Call("safeBatchTransferFrom") EXCEPT
                        !.sup = s, !.ids = ids,
                        !.xfers = [i \in 1..Len(ids) |-> Xfer(from, to, amounts[i], TRUE)]]
         /\ UNCHANGED <<orchVars, bookingTickets, transferable, details, approvals,
                        utilVars, cur, now>>
    ELSE Revert

\* ------------------------------------ SupplierUtilityContract: the holders
\* A utility ledger whose transfers go through as the base contract's do.
utilitySafeTransferFromRequiresAsBase(caller, s, from, id, amount) ==
    /\ from = caller
    /\ utilBalances[s][id][from] >= amount

\* safeTransferFrom of the ERC1155 base checks the caller and then calls
\* _safeTransferFrom, which the contract overrides to revert NonTransferable.
utilitySafeTransferFromRequires(caller, s, from, id, amount) ==
    /\ from = caller
    /\ FALSE

UtilitySafeTransferFrom(caller, s, from, to, id, amount) ==
    IF utilitySafeTransferFromRequires(caller, s, from, id, amount)
    THEN /\ utilBalances' = [utilBalances EXCEPT ![s][id] =
                [[@ EXCEPT ![from] = @ - amount] EXCEPT ![to] = @ + amount]]
         /\ last' = [Call("utilitySafeTransferFrom") EXCEPT
                        !.sup = s, !.ids = <<id>>,
                        !.xfers = <<Xfer(from, to, amount, TRUE)>>]
         /\ UNCHANGED <<orchVars, tokenVars, utilTickets, cur, now>>
    ELSE Revert

\* safeBatchTransferFrom, likewise, ends in _safeBatchTransferFrom, overridden
\* to revert NonTransferable.
utilitySafeBatchTransferFromRequires(caller, s, from, ids, amounts) ==
    /\ from = caller
    /\ FALSE

UtilitySafeBatchTransferFrom(caller, s, from, to, ids, amounts) ==
    IF utilitySafeBatchTransferFromRequires(caller, s, from, ids, amounts)
    THEN /\ utilBalances' = [utilBalances EXCEPT ![s] =
                BatchMove(utilBalances[s], from, to, ids, amounts, 1).bal]
         /\ last' = [Call("utilitySafeBatchTransferFrom") EXCEPT !.sup = s, !.ids = ids]
         /\ UNCHANGED <<orchVars, tokenVars, utilTickets, cur, now>>
    ELSE Revert

\* ------------------------- the ledgers' gated functions, called directly
\* FACTORY_CONTRACT_ROLE is granted in the ledger's constructor to the
\* factory and has no admin who could grant it again.
hasFactoryRoleAnyone(a) == a \in Outsiders \cup {FACTORY}

hasFactoryRole(a) == a = FACTORY

\* The address of token ledger s, as a caller.
LedgerAddr(s) ==
    IF s \in 1..4 THEN <<"ledger1", "ledger2", "ledger3", "ledger4">>[s] ELSE ZERO

hasSupplierContractRoleAnyone(u, a) == TRUE

\* SUPPLIER_CONTRACT_ROLE of utility ledger u: granted by grantSupplierRole,
\* which registerSupplier calls with the token ledger it records.
hasSupplierContractRole(u, a) ==
    \E s \in SupplierIdSet :
        /\ Suppliers[s].status
        /\ Suppliers[s].utility_contract = u
        /\ a = LedgerAddr(Suppliers[s].supplier_contract)

SupplierMint(caller, s, id, account, amount, uri, status) ==
    IF s <= supplierIds /\ hasFactoryRole(caller)
    THEN /\ Store(Mint(World, s, id, account, amount, uri, status))
         /\ last' = [Call("mint") EXCEPT !.sup = s, !.ids = <<id>>]
         /\ UNCHANGED <<orchVars, details, approvals, cur, now>>
    ELSE Revert

SupplierBurn(caller, s, account, id, amount, utility) ==
    LET w == Burn(World, s, account, id, amount, utility)
    IN  IF s <= supplierIds /\ hasFactoryRole(caller) /\ w.ok
        THEN /\ Store(w)
             /\ last' = [Call("burn") EXCEPT !.sup = s, !.ids = <<id>>]
             /\ UNCHANGED <<orchVars, details, approvals, cur, now>>
        ELSE Revert

SupplierSetURI(caller, s, id, newuri) ==
    IF s <= supplierIds /\ hasFactoryRole(caller)
    THEN /\ bookingTickets' = [bookingTickets EXCEPT ![s][id] = newuri]
         /\ last' = [Call("setURI") EXCEPT !.sup = s, !.ids = <<id>>]
         /\ UNCHANGED <<orchVars, balances, transferable, details, approvals,
                        utilVars, cur, now>>
    ELSE Revert

SupplierToggleNFTStatus(caller, s, id, status) ==
    IF s <= supplierIds /\ hasFactoryRole(caller)
    THEN /\ transferable' = [transferable EXCEPT ![s][id] = status]
         /\ last' = [Call("ledgerToggleNFTStatus") EXCEPT
                        !.sup = s, !.ids = <<id>>, !.flag = status]
         /\ UNCHANGED <<orchVars, balances, bookingTickets, details, approvals,
                        utilVars, cur, now>>
    ELSE Revert

\* mint of utility ledger u, called directly.
UtilityMintCall(caller, u, account, id, amount, newuri) ==
    IF u <= supplierIds /\ hasSupplierContractRole(u, caller)
    THEN /\ Store(UtilityMint(World, u, account, id, amount, newuri))
         /\ last' = [Call("utilityMint") EXCEPT !.sup = u, !.ids = <<id>>]
         /\ UNCHANGED <<orchVars, details, approvals, cur, now>>
    ELSE Revert

\* block.timestamp moves forward between calls.
AdvanceTime(t) ==
    /\ t > now
    /\ now' = t
    /\ UNCHANGED last
    /\ UNCHANGED <<orchVars, tokenVars, utilVars, cur>>

\* ----------------------------------------------------------------- inputs
LongBatch(n) == [i \in 1..n |-> 1]
Distinct(ids) == \A i, j \in 1..Len(ids) : i # j => ids[i] # ids[j]
ShortBatches ==
    {b \in UNION {[1..n -> BookingIdSet] : n \in 0..MaxBatch} :
        \A i \in 1..Len(b) - 1 : b[i] <= b[i + 1]}
\* Batches up to MaxBatch ids, and the two at the batch limit.
Batches == ShortBatches \cup {LongBatch(BatchLimit - 1), LongBatch(BatchLimit)}

\* The uris for a batch: one of its length, which differs from position to
\* position, and one that is longer.
UrisMatching(ids) == [i \in 1..Len(ids) |-> IF i % 2 = 1 THEN "a" ELSE "b"]
UrisLonger(ids) == [i \in 1..Len(ids) + 1 |-> "a"]

\* The currency ledger's answers to the (up to four) transfers of a bookRoom.
Outcomes == [1..4 -> Answers]
Paid == {[i \in 1..4 |-> "true"]}
CancelAmounts == {<<10, 80, 5>>}

\* ------------------------------------------------- the calls of a behaviour
\* A call that reverts changes nothing, so the calls of a behaviour are drawn
\* from the callers and arguments some state accepts, with a few that every
\* state rejects; what a call rejects is stated over all the arguments, from
\* the requires of each call.
Untouched == UNCHANGED <<stateVars, last>>

Change(A) ==
    /\ spent.changes < MaxChanges
    /\ A
    /\ spent' = [spent EXCEPT !.changes = IF Untouched THEN @ ELSE @ + 1]

DeployStep ==
    /\ \E c \in Callers : SetDeployers(c, SUPPLIER_DEPLOYER, UTILITY_DEPLOYER)
    /\ UNCHANGED spent

ConfigStep ==
    \/ \E t \in TreasuryAddrs : Change(SetTreasury(ADMIN, t))
    \/ \E n \in Names : Change(UpdateSupplierDetails(ADMIN, 1, n))
    \/ \E p \in Commissions : Change(SetCommission(ADMIN, p))
    \/ \E h \in LockHours : Change(SetTransferLock(ADMIN, 1, MaxBookings, h))
    \/ \E t \in Times : Change(AdvanceTime(t))

RegisterStep(owners) ==
    /\ \E c \in Callers, o \in owners :
          supplierIds < MaxSuppliers /\ RegisterSupplier(c, o)
    /\ UNCHANGED spent

BookStep(bookers, sups, counts, totals, rates, outs) ==
    /\ \E c \in bookers, s \in sups, n \in counts, o \in outs :
          \E tot \in [1..n -> totals], r \in [1..n -> rates],
             t \in CheckinTimes, u \in CheckoutTimes :
                bookingIds + n <= MaxBookings /\ BookRoom(c, s, n, tot, r, t, u, o)
    /\ UNCHANGED spent

RefundStep(sups, batches, owners) ==
    /\ \E s \in sups, ids \in batches, o \in owners : BookingRefund(ADMIN, s, ids, o)
    /\ UNCHANGED spent

ConfirmStep(callers, sups, batches) ==
    /\ \E c \in callers, s \in sups, ids \in batches, st \in BOOLEAN :
          ConfirmRoom(c, s, ids, UrisMatching(ids), st)
    /\ UNCHANGED spent

CheckoutStep(sups, batches) ==
    /\ \E s \in sups, ids \in batches : Checkout(ADMIN, s, ids)
    /\ UNCHANGED spent

CancelStep(sups) ==
    /\ \E s \in sups, i \in BookingIdSet, a \in CancelAmounts :
          CancelRoom(ADMIN, s, i, a[1], a[2], a[3])
    /\ UNCHANGED spent

\* Toggles and transfers are those of the last token id: the first is the one
\* the batches at the limit repeat.
ToggleStep ==
    /\ \E c \in Callers, st \in BOOLEAN : ToggleNFTStatus(c, MaxBookings, st)
    /\ UNCHANGED spent

TransferStep(sups, senders, receivers) ==
    /\ spent.transfers < MaxTransfers
    /\ \E s \in sups, f \in senders, t \in receivers :
          SafeTransferFrom(f, s, f, t, MaxBookings, 1)
    /\ spent' = [spent EXCEPT !.transfers = IF Untouched THEN @ ELSE @ + 1]

CommissionStep(pcts) ==
    \E p \in pcts : Change(SetCommission(ADMIN, p))

\* The time lock of the last token id, and the clock.
LockStep(hours, times) ==
    \/ \E h \in hours : Change(SetTransferLock(ADMIN, 1, MaxBookings, h))
    \/ \E t \in times : Change(AdvanceTime(t))

ApproveStep(sups, holders, operators) ==
    /\ \E s \in sups, h \in holders, o \in operators, a \in BOOLEAN :
          SetApprovalForAll(h, s, o, a)
    /\ UNCHANGED spent

\* A transfer of one unit by a caller who may be the sender or its operator.
OperatorTransferStep(sups, callers, senders, receivers) ==
    /\ spent.transfers < MaxTransfers
    /\ \E s \in sups, c \in callers, f \in senders, t \in receivers :
          SafeTransferFrom(c, s, f, t, MaxBookings, 1)
    /\ spent' = [spent EXCEPT !.transfers = IF Untouched THEN @ ELSE @ + 1]

\* A batch transfer of one unit for each id of the batch.
BatchTransferStep(sups, callers, senders, receivers, batches) ==
    /\ spent.transfers < MaxTransfers
    /\ \E s \in sups, c \in callers, f \in senders, t \in receivers, ids \in batches :
          SafeBatchTransferFrom(c, s, f, t, ids, [i \in 1..Len(ids) |-> 1])
    /\ spent' = [spent EXCEPT !.transfers = IF Untouched THEN @ ELSE @ + 1]

\* The transfers of the utility ledgers.
UtilityTransferStep(sups, senders, receivers, batches) ==
    /\ spent.transfers < MaxTransfers
    /\ \/ \E s \in sups, f \in senders, t \in receivers, i \in BookingIdSet :
             UtilitySafeTransferFrom(f, s, f, t, i, 1)
       \/ \E s \in sups, f \in senders, t \in receivers, ids \in batches :
             UtilitySafeBatchTransferFrom(f, s, f, t, ids, [i \in 1..Len(ids) |-> 1])
    /\ spent' = [spent EXCEPT !.transfers = IF Untouched THEN @ ELSE @ + 1]

\* Direct calls of the gated functions of a token ledger.
LedgerCallStep(callers, sups) ==
    /\ \E c \in callers, s \in sups, i \in BookingIdSet, a \in Users :
          \/ \E st \in BOOLEAN : SupplierMint(c, s, i, a, 1, "a", st)
          \/ \E ut \in BOOLEAN : SupplierBurn(c, s, a, i, 1, ut)
          \/ SupplierSetURI(c, s, i, "b")
          \/ \E st \in BOOLEAN : SupplierToggleNFTStatus(c, s, i, st)
    /\ UNCHANGED spent

\* Direct calls of mint on a utility ledger.
UtilityCallStep(callers, sups) ==
    /\ \E c \in callers, u \in sups, i \in BookingIdSet, a \in Users :
          UtilityMintCall(c, u, a, i, 1, "a")
    /\ UNCHANGED spent

\* Every operation, on the bookings of one user with one supplier.
Next ==
    \/ DeployStep
    \/ ConfigStep
    \/ RegisterStep({SUPPLIER_OWNER})
    \/ BookStep({"u1"}, {1}, 0..MaxBatch, Totals, BaseRates, Paid)
    \/ RefundStep({1}, ShortBatches, {"u1"})
    \/ ConfirmStep(Users, {1}, ShortBatches)
    \/ CheckoutStep(SupplierIdSet, ShortBatches)
    \/ CancelStep(SupplierIdSet)
    \/ ToggleStep
    \/ TransferStep({1}, {"u1"}, {"u2"})

Spec == Init /\ [][Next]_vars

\* bookRoom under every answer of the currency ledger, and what may follow.
NextPay ==
    \/ DeployStep
    \/ RegisterStep({SUPPLIER_OWNER})
    \/ BookStep({"u1"}, {1}, 1..MaxBatch, Totals, BaseRates, Outcomes)
    \/ RefundStep({1}, ShortBatches, {"u1"})
    \/ ConfirmStep({"u1"}, {1}, ShortBatches)

SpecPay == Init /\ [][NextPay]_vars

\* The ledgers of two suppliers under batches up to the limit.
NextLedgers ==
    \/ DeployStep
    \/ RegisterStep({SUPPLIER_OWNER})
    \/ BookStep({"u1"}, {1}, 0..MaxBatch, Totals, BaseRates, Paid)
    \/ ConfirmStep({"u1"}, SupplierIdSet, Batches)
    \/ CheckoutStep(SupplierIdSet, Batches)
    \/ CancelStep(SupplierIdSet)
    \/ ToggleStep
    \/ TransferStep(SupplierIdSet, {"u1"}, {"u2"})

SpecLedgers == Init /\ [][NextLedgers]_vars

\* The money of a booking: rooms at rates a percentage truncates, booked by
\* either user and refunded, at a commission that changes in between.
NextRates ==
    \/ DeployStep
    \/ RegisterStep({SUPPLIER_OWNER})
    \/ CommissionStep(Commissions)
    \/ BookStep(Users, {1}, 0..MaxBatch, Totals, RateSamples, Paid)
    \/ RefundStep({1}, ShortBatches, Users)

SpecRates == Init /\ [][NextRates]_vars

\* Cancellations, with suppliers of different owners.
NextCancel ==
    \/ DeployStep
    \/ RegisterStep(SupplierOwners)
    \/ BookStep({"u1"}, SupplierIdSet, 1..MaxBatch, Totals, BaseRates, Paid)
    \/ ConfirmStep({"u1"}, SupplierIdSet, ShortBatches)
    \/ CancelStep(SupplierIdSet)

SpecCancel == Init /\ [][NextCancel]_vars

\* The holders of the tokens: flags, approvals and transfers on the token
\* ledgers and on the utility ledgers.
NextHolders ==
    \/ DeployStep
    \/ RegisterStep({SUPPLIER_OWNER})
    \/ BookStep({"u1"}, {1}, 1..MaxBatch, Totals, BaseRates, Paid)
    \/ ConfirmStep({"u1"}, {1}, ShortBatches)
    \/ CheckoutStep({1}, ShortBatches)
    \/ ToggleStep
    \/ ApproveStep({1}, {"u1"}, {"u2"})
    \/ OperatorTransferStep({1}, Users, {"u1"}, {"u2"})
    \/ BatchTransferStep({1}, Users, {"u1"}, {"u2"}, ShortBatches)
    \/ UtilityTransferStep({1}, {"u1"}, {"u2"}, ShortBatches)
    \/ LedgerCallStep({"u1", SUPPLIER_OWNER}, {1})
    \/ UtilityCallStep({"u1", FACTORY}, {1})

SpecHolders == Init /\ [][NextHolders]_vars

\* The transferability flag under time locks, with tokens held on the ledger
\* of either supplier.
NextLock ==
    \/ DeployStep
    \/ RegisterStep({SUPPLIER_OWNER})
    \/ BookStep(Users, {1}, 1..MaxBatch, Totals, BaseRates, Paid)
    \/ ConfirmStep(Users, SupplierIdSet, ShortBatches)
    \/ LockStep(LockSamples, TimeSamples)
    \/ ToggleStep

SpecLock == Init /\ [][NextLock]_vars

\* ================================================================ properties
\* The step just taken was a call of `op` that went through.
Did(op) == last' # last /\ last'.op = op

Status(i) == BookingDetails[i].status
Owner(i) == BookingDetails[i].owner
TokenId(i) == BookingDetails[i].tokenID
\* The same, after the step.
StatusAfter(i) == BookingDetails'[i].status
OwnerAfter(i) == BookingDetails'[i].owner
TokenIdAfter(i) == BookingDetails'[i].tokenID
\* The token ledger (and the paired utility ledger) of supplier id s.
Ledger(s) == Suppliers[s].supplier_contract
Items(ids) == 1..Len(ids)
Occurrences(ids, id) == Cardinality({k \in Items(ids) : ids[k] = id})
\* The arguments the properties range over: every caller, every supplier id
\* (0 is never registered), every batch, uris of the batch's length or longer.
SupplierArgs == 0..MaxSuppliers
UriArgs(ids) == {UrisMatching(ids), UrisLonger(ids)}

\* ---------------------------------------------------------------------- C1
StatusEdges ==
    {<<"nil", "booked">>, <<"booked", "confirmed">>, <<"booked", "cancelled">>,
     <<"confirmed", "expired">>, <<"confirmed", "cancelled">>}

\* C1: in every step of every operation, the status of every booking either
\* stays as it is or moves along nil->booked, booked->confirmed,
\* booked->cancelled, confirmed->expired, confirmed->cancelled; so a call that
\* would move it otherwise changes nothing, and expired and cancelled, which
\* no edge leaves, are final.
C1_StatusEdges ==
    [][\A i \in BookingIdSet :
          StatusAfter(i) # Status(i) => <<Status(i), StatusAfter(i)>> \in StatusEdges]_vars

\* One booking has reached expired and another cancelled.
C1_Witness ==
    \E i, j \in BookingIdSet : Status(i) = "expired" /\ Status(j) = "cancelled"

\* ---------------------------------------------------------------------- C2
\* C2 as stated: a booking's token id is non-zero exactly when the booking is
\* confirmed or expired.
C2_TokenIdIffConfirmedOrExpired ==
    \A i \in BookingIdSet :
        TokenId(i) # 0 <=> Status(i) \in {"confirmed", "expired"}

\* C2, amended: the token id is 0 while the booking is nil or booked and is
\* the booking id while it is confirmed or expired; a cancellation leaves it
\* as it was, so a booking cancelled by bookingRefund has 0 and one cancelled
\* by cancelRoom keeps its booking id.
C2_TokenIdSetOnceAtConfirm ==
    /\ [](\A i \in BookingIdSet :
             /\ Status(i) \in {"nil", "booked"} => TokenId(i) = 0
             /\ Status(i) \in {"confirmed", "expired"} => TokenId(i) = i)
    /\ [][\A i \in BookingIdSet :
             StatusAfter(i) = "cancelled" =>
                 TokenIdAfter(i) = TokenId(i)]_vars

\* cancelRoom has cancelled a confirmed booking, which keeps its token id,
\* and bookingRefund a booked one, which has none.
C2_Witness ==
    \E i, j \in BookingIdSet :
        /\ Status(i) = "cancelled" /\ TokenId(i) = i
        /\ Status(j) = "cancelled" /\ TokenId(j) = 0

\* ---------------------------------------------------------------------- C3
\* C3 as stated: a bookRoom whose commission transfer answers false returns
\* false and leaves the booking counter and the booking table as they were.
C3_NoBookingOnCommissionFailure ==
    [][(Did("bookRoom") /\ ~last'.xfers[1].ok) =>
          /\ last'.res = "false"
          /\ bookingIds' = bookingIds
          /\ BookingDetails' = BookingDetails]_vars

\* ---------------------------------------------------------------------- C4
\* C4 as stated: a bookRoom whose commission transfer answers false issues no
\* other transfer, and leaves every balance of the currency ledger as it was.
C4_NoTransferAfterCommissionFailure ==
    [][(Did("bookRoom") /\ ~last'.xfers[1].ok) =>
          /\ Len(last'.xfers) = 1
          /\ cur' = cur]_vars

\* ---------------------------------------------------------------------- C5
\* C5: a bookRoom whose commission transfer answers true and whose payment
\* answers false issues, after them, the transfer of the commission total
\* from the wallet to the caller, returns false, and leaves the bookings it
\* created in the table, booked and owned by the caller.
C5_CommissionReturnedOnPaymentFailure ==
    [][(Did("bookRoom") /\ last'.xfers[1].ok /\ ~last'.xfers[2].ok) =>
          /\ Len(last'.xfers) >= 3
          /\ last'.xfers[3].from = BUK_WALLET
          /\ last'.xfers[3].to = last'.xfers[1].from
          /\ last'.xfers[3].amount = last'.xfers[1].amount
          /\ last'.res = "false"
          /\ bookingIds' = bookingIds + Len(last'.ids)
          /\ \A k \in Items(last'.ids) :
                /\ last'.ids[k] = bookingIds + k
                /\ Status(last'.ids[k]) = "nil"
                /\ StatusAfter(last'.ids[k]) = "booked"
                /\ OwnerAfter(last'.ids[k]) = last'.xfers[1].from]_vars

\* A bookRoom for two rooms collected the commission, failed to collect the
\* payment and returned false.
C5_Witness ==
    /\ last.op = "bookRoom" /\ last.res = "false" /\ Len(last.ids) = 2
    /\ last.xfers[1].ok /\ ~last.xfers[2].ok
    /\ \A k \in Items(last.ids) : Status(last.ids[k]) = "booked"

\* ---------------------------------------------------------------------- C6
C6_Accepts(caller, sup, ids, uris) ==
    /\ Supplier(sup).status
    /\ \A k \in Items(ids) : Booking(ids[k]).owner = caller
    /\ \A k \in Items(ids) : Booking(ids[k]).status = "booked"
    /\ Len(ids) = Len(uris)
    /\ Len(ids) <= 10

\* C6: in every reachable state and for every caller, supplier id, batch and
\* uris, confirmRoom goes through exactly when the supplier is active, the
\* caller owns every booking, every booking is booked, ids and uris have the
\* same length and there are at most 10 ids, and then every booking of the
\* batch is confirmed with its id as token id; and a booking becomes confirmed
\* only in a confirmRoom of a batch that holds it and is confirmed as a whole.
C6_ConfirmAllOrNothing ==
    /\ [](\A c \in Callers, s \in SupplierArgs, ids \in Batches :
            \A uris \in UriArgs(ids) :
                LET w == confirmRoom(c, s, ids, uris, TRUE)
                IN  /\ w.ok <=> C6_Accepts(c, s, ids, uris)
                    /\ w.ok => \A k \in Items(ids) :
                                  /\ w.bd[ids[k]].status = "confirmed"
                                  /\ w.bd[ids[k]].tokenID = ids[k])
    /\ [][\A i \in BookingIdSet :
             (StatusAfter(i) = "confirmed" /\ Status(i) # "confirmed") =>
                 /\ Did("confirmRoom")
                 /\ \E k \in Items(last'.ids) : last'.ids[k] = i
                 /\ \A k \in Items(last'.ids) :
                       /\ StatusAfter(last'.ids[k]) = "confirmed"
                       /\ TokenIdAfter(last'.ids[k]) = last'.ids[k]]_vars

\* A confirmRoom of 10 ids has gone through.
C6_Witness ==
    /\ last.op = "confirmRoom" /\ Len(last.ids) = 10
    /\ \A k \in Items(last.ids) : Status(last.ids[k]) = "confirmed"

\* ---------------------------------------------------------------------- C7
\* C7: a confirmRoom of distinct ids that goes through leaves, on the token
\* ledger of the supplier id it was called with and for each id, the balance
\* of the booking's owner one higher than before, the uri of the call for
\* that position as the uri of the id, and the flag of the call as its
\* transferability flag.
C7_ConfirmMints ==
    [][(Did("confirmRoom") /\ Distinct(last'.ids)) =>
          \A k \in Items(last'.ids) :
              LET id == last'.ids[k]
                  sc == Ledger(last'.sup)
              IN  /\ balances'[sc][id][Owner(id)] = balances[sc][id][Owner(id)] + 1
                  /\ bookingTickets'[sc][id] = last'.uris[k]
                  /\ transferable'[sc][id] = last'.flag]_vars

\* A confirmRoom of two distinct ids, with two uris, has gone through.
C7_Witness ==
    /\ last.op = "confirmRoom" /\ Len(last.ids) = 2 /\ Distinct(last.ids)
    /\ last.uris[1] # last.uris[2]
    /\ \A k \in Items(last.ids) :
          balances[Ledger(last.sup)][last.ids[k]][Owner(last.ids[k])] = 1

\* ---------------------------------------------------------------------- C8
\* C8 as stated: a checkout that goes through leaves every booking of the
\* batch expired, the owner's balance of the token one lower and the token's
\* uri cleared on the token ledger, and on the utility ledger the owner's
\* balance one higher, with the uri the token ledger held before the burn.
C8_CheckoutBurnsAndIssues ==
    [][Did("checkout") =>
          \A k \in Items(last'.ids) :
              LET id == last'.ids[k]
                  sc == Ledger(last'.sup)
              IN  /\ StatusAfter(id) = "expired"
                  /\ balances'[sc][id][Owner(id)] = balances[sc][id][Owner(id)] - 1
                  /\ bookingTickets'[sc][id] = ""
                  /\ utilBalances'[sc][id][Owner(id)] = utilBalances[sc][id][Owner(id)] + 1
                  /\ utilTickets'[sc][id] = bookingTickets[sc][id]]_vars

\* ---------------------------------------------------------------------- C9
C9_Accepts(caller, sup, ids) ==
    /\ hasAdminRole(caller)
    /\ Supplier(sup).status
    /\ Len(ids) <= 10
    /\ \A k \in Items(ids) : Booking(ids[k]).status = "confirmed"

\* The owner of every booking of the batch holds, on the token ledger of the
\* supplier id, a unit of the booking's token for each time the batch names it.
C9_Held(sup, ids) ==
    \A k \in Items(ids) :
        balances[Ledger(sup)][ids[k]][Owner(ids[k])] >= Occurrences(ids, ids[k])

\* C9 as stated: checkout goes through, leaving every booking of the batch
\* expired, exactly when the caller is admin, the supplier is active, the
\* batch has at most 10 ids and every booking is confirmed.
C9_CheckoutIffConditions ==
    \A c \in Callers, s \in SupplierArgs, ids \in Batches :
        LET w == checkout(c, s, ids)
        IN  /\ w.ok <=> C9_Accepts(c, s, ids)
            /\ w.ok => \A k \in Items(ids) : w.bd[ids[k]].status = "expired"

\* C9, amended: checkout goes through exactly when the caller is admin, the
\* supplier is active, the batch has at most 10 ids, every booking is
\* confirmed and every owner holds the units the batch burns on the ledger
\* of the supplier id; then every booking of the batch is expired; and a
\* booking becomes expired only in a checkout of a batch that holds it and is
\* expired as a whole.
C9_CheckoutAllOrNothing ==
    /\ [](\A c \in Callers, s \in SupplierArgs, ids \in Batches :
            LET w == checkout(c, s, ids)
            IN  /\ w.ok <=> (C9_Accepts(c, s, ids) /\ C9_Held(s, ids))
                /\ w.ok => \A k \in Items(ids) : w.bd[ids[k]].status = "expired")
    /\ [][\A i \in BookingIdSet :
             (StatusAfter(i) = "expired" /\ Status(i) # "expired") =>
                 /\ Did("checkout")
                 /\ \E k \in Items(last'.ids) : last'.ids[k] = i
                 /\ \A k \in Items(last'.ids) : StatusAfter(last'.ids[k]) = "expired"]_vars

\* A checkout of two bookings has gone through.
C9_Witness ==
    /\ last.op = "checkout" /\ Len(last.ids) = 2 /\ Distinct(last.ids)
    /\ \A k \in Items(last.ids) : Status(last.ids[k]) = "expired"

\* ---------------------------------------------------------------------- C10
\* C10: a cancelRoom that goes through finds the booking confirmed and
\* leaves it cancelled, the owner's balance of its token on the token ledger
\* of the supplier id one lower, and every balance and uri of every utility
\* ledger as it was.
C10_CancelBurnsWithoutUtility ==
    [][Did("cancelRoom") =>
          LET id == last'.ids[1]
              sc == Ledger(last'.sup)
          IN  /\ Status(id) = "confirmed"
              /\ StatusAfter(id) = "cancelled"
              /\ balances'[sc][id][Owner(id)] = balances[sc][id][Owner(id)] - 1
              /\ utilBalances' = utilBalances
              /\ utilTickets' = utilTickets]_vars

\* A cancelRoom has gone through while a utility token of another booking
\* exists.
C10_Witness ==
    /\ last.op = "cancelRoom"
    /\ Status(last.ids[1]) = "cancelled"
    /\ \E s \in SupplierIdSet, i \in BookingIdSet, a \in Callers :
          utilBalances[s][i][a] > 0

\* ---------------------------------------------------------------------- C11
\* C11: a cancelRoom that goes through finds the booking confirmed and issues
\* exactly three refund instructions to the treasury, in this order: the
\* penalty to the owner of the supplier recorded in the booking, the refund to
\* the booking's owner, the charges to the protocol wallet; and for every
\* caller and supplier id, cancelRoom of a booking that is not confirmed is
\* rejected (a rejected call issues nothing).
C11_CancelRefunds ==
    /\ [](\A c \in Callers, s \in SupplierArgs, i \in BookingIdSet :
             Status(i) # "confirmed" => ~cancelRoom(c, s, i).ok)
    /\ [][Did("cancelRoom") =>
             LET id == last'.ids[1]
                 r == last'.refunds
             IN  /\ Status(id) = "confirmed"
                 /\ Len(r) = 3
                 /\ \E a \in CancelAmounts :
                       \A k \in 1..3 : r[k].amount = a[k] /\ r[k].treasury = treasury
                 /\ r[1].to = Suppliers[BookingDetails[id].supplierId].supplier_owner
                 /\ r[2].to = Owner(id)
                 /\ r[3].to = BUK_WALLET]_vars

\* A cancelRoom has gone through with a supplier id other than the booking's,
\* the two suppliers having different owners.
C11_Witness ==
    /\ last.op = "cancelRoom"
    /\ last.sup # BookingDetails[last.ids[1]].supplierId
    /\ Suppliers[last.sup].supplier_owner
           # Suppliers[BookingDetails[last.ids[1]].supplierId].supplier_owner
    /\ last.refunds[1].to = Suppliers[BookingDetails[last.ids[1]].supplierId].supplier_owner

\* ---------------------------------------------------------------------- C12
\* The sum over the items of a batch of total + floor(baseRate * commission / 100).
RECURSIVE C12_Due(_, _)
C12_Due(ids, n) ==
    IF n = 0 THEN 0
    ELSE C12_Due(ids, n - 1) + BookingDetails[ids[n]].total
             + (BookingDetails[ids[n]].baseRate * commission) \div 100

\* C12: for every caller, supplier id, batch and owner, bookingRefund goes
\* through only if every booking of the batch is booked and owned by the
\* owner; one that goes through leaves every booking of the batch cancelled
\* and issues exactly one refund instruction, to the owner, for the sum over
\* the batch of total + floor(baseRate * commission / 100); and a booked
\* booking is cancelled in no other way than by a bookingRefund that goes
\* through (a rejected call changes nothing and issues nothing).
C12_BookingRefund ==
    /\ [](\A c \in Callers, s \in SupplierArgs, ids \in Batches, o \in Callers :
             bookingRefundRequires(c, s, ids, o) =>
                 \A k \in Items(ids) : Status(ids[k]) = "booked" /\ Owner(ids[k]) = o)
    /\ [][Did("bookingRefund") =>
             /\ \A k \in Items(last'.ids) :
                   /\ Status(last'.ids[k]) = "booked"
                   /\ StatusAfter(last'.ids[k]) = "cancelled"
                   /\ Owner(last'.ids[k]) = last'.refunds[1].to
             /\ Len(last'.refunds) = 1
             /\ last'.refunds[1].amount = C12_Due(last'.ids, Len(last'.ids))
             /\ last'.refunds[1].treasury = treasury]_vars
    /\ [][\A i \in BookingIdSet :
             (Status(i) = "booked" /\ StatusAfter(i) = "cancelled") =>
                 /\ Did("bookingRefund")
                 /\ \E k \in Items(last'.ids) : last'.ids[k] = i]_vars

\* A bookingRefund of two bookings has gone through, at a commission other
\* than the default, one of the bookings having a rate the percentage
\* truncates.
C12_Witness ==
    /\ last.op = "bookingRefund" /\ Len(last.ids) = 2 /\ Distinct(last.ids)
    /\ commission # DefaultCommission
    /\ \E k \in Items(last.ids) :
          (BookingDetails[last.ids[k]].baseRate * commission) % 100 # 0
    /\ \A k \in Items(last.ids) : Status(last.ids[k]) = "cancelled"

\* ---------------------------------------------------------------------- C13
\* The sum over the rooms a bookRoom has just recorded of
\* floor(baseRate * commission / 100), and the sum of their totals.
RECURSIVE C13_Commission(_, _)
C13_Commission(ids, n) ==
    IF n = 0 THEN 0
    ELSE C13_Commission(ids, n - 1)
             + (BookingDetails'[ids[n]].baseRate * commission) \div 100

RECURSIVE C13_Total(_, _)
C13_Total(ids, n) ==
    IF n = 0 THEN 0 ELSE C13_Total(ids, n - 1) + BookingDetails'[ids[n]].total

C20_IdsFromCounter ==
    /\ [](\A i \in BookingIdSet :
             /\ i <= bookingIds <=> Status(i) # "nil"
             /\ Status(i) # "nil" => BookingDetails[i].id = i)
    /\ [][/\ bookingIds' >= bookingIds
          /\ bookingIds' # bookingIds => Did("bookRoom")
          /\ \A i \in BookingIdSet : Status(i) # "nil" => StatusAfter(i) # "nil"]_vars
    /\ [][Did("bookRoom") =>
             LET n == Len(last'.ids)
             IN  /\ bookingIds' = bookingIds + n
                 /\ \A k \in Items(last'.ids) :
                       /\ last'.ids[k] = bookingIds + k
                       /\ Status(last'.ids[k]) = "nil"
                       /\ BookingDetails'[last'.ids[k]].id = last'.ids[k]
                       /\ StatusAfter(last'.ids[k]) = "booked"
                       /\ TokenIdAfter(last'.ids[k]) = 0
                       /\ OwnerAfter(last'.ids[k]) = last'.xfers[1].from
                 /\ \A i \in BookingIdSet :
                       (i <= bookingIds \/ i > bookingIds + n) =>
                           BookingDetails'[i] = BookingDetails[i]]_vars

\* A second bookRoom, by another user, has taken the id after the first.
C20_Witness ==
    /\ last.op = "bookRoom" /\ Len(last.ids) = 1 /\ last.ids[1] = 2
    /\ Status(1) # "nil" /\ Status(2) = "booked"
    /\ Owner(1) # Owner(2)

\* ---------------------------------------------------------------------- C14
Ones(ids) == [k \in Items(ids) |-> 1]

\* C14: on every token ledger, while the flag of a token id is false, a
\* transfer of it, and a batch transfer of a batch that holds it, are rejected
\* for every caller, sender and recipient, and no step moves a unit of it out
\* of a holder's balance other than a burn; while the flag is true, a transfer
\* of a unit the sender holds, called by the sender or by an operator the
\* sender approved, is accepted; and a transfer that goes through takes the
\* amount from the sender's balance and adds it to the recipient's.
C14_TransferGate ==
    /\ [](\A s \in SupplierIdSet, i \in BookingIdSet, c \in Callers, f \in Callers :
             /\ ~transferable[s][i] =>
                   /\ ~safeTransferFromRequires(c, s, f, i, 1)
                   /\ \A t \in Callers, ids \in ShortBatches :
                         (\E k \in Items(ids) : ids[k] = i) =>
                             ~safeBatchTransferFromRequires(c, s, f, t, ids, Ones(ids))
             /\ (/\ transferable[s][i]
                 /\ c = f \/ <<f, c>> \in approvals[s]
                 /\ balances[s][i][f] >= 1) =>
                   safeTransferFromRequires(c, s, f, i, 1))
    /\ [][\A s \in SupplierIdSet, i \in BookingIdSet, a \in Callers :
             (balances'[s][i][a] < balances[s][i][a] /\ BookingDetails' = BookingDetails)
                 => transferable[s][i]]_vars
    /\ [][Did("safeTransferFrom") =>
             LET x == last'.xfers[1]
                 i == last'.ids[1]
                 s == last'.sup
             IN  /\ transferable[s][i]
                 /\ x.from # x.to
                 /\ balances'[s][i][x.from] = balances[s][i][x.from] - x.amount
                 /\ balances'[s][i][x.to] = balances[s][i][x.to] + x.amount]_vars

\* A transfer has moved the token of a booking of u1 to u2, who is an approved
\* operator of u1.
C14_Witness ==
    /\ last.op = "safeTransferFrom"
    /\ <<"u1", "u2">> \in approvals[last.sup]
    /\ Owner(last.ids[1]) = "u1"
    /\ transferable[last.sup][last.ids[1]]
    /\ balances[last.sup][last.ids[1]]["u2"] = 1

\* ---------------------------------------------------------------------- C15
\* C15: on every utility ledger, transfer and batch transfer are rejected for
\* every caller, sender, id and batch, and in every step of every operation
\* every holder's balance of every utility token id stays as it is or grows.
C15_UtilityNeverMoves ==
    /\ [](\A s \in SupplierIdSet, c \in Callers, f \in Callers :
             /\ \A i \in BookingIdSet :
                   ~utilitySafeTransferFromRequires(c, s, f, i, 1)
             /\ \A ids \in Batches :
                   ~utilitySafeBatchTransferFromRequires(c, s, f, ids, Ones(ids)))
    /\ [][\A s \in SupplierIdSet, i \in BookingIdSet, a \in Callers :
             utilBalances'[s][i][a] >= utilBalances[s][i][a]]_vars

\* A checkout has issued the utility tokens of two bookings to their owner.
C15_Witness ==
    /\ last.op = "checkout" /\ Len(last.ids) = 2 /\ Distinct(last.ids)
    /\ \A k \in Items(last.ids) :
          utilBalances[Ledger(last.sup)][last.ids[k]][Owner(last.ids[k])] = 1

\* ---------------------------------------------------------------------- C16
\* The check-in time of booking i, and its transfer lock in seconds.
C16_T(i) == BookingDetails[i].checkin
C16_L(i) == TimeLocks[BookingDetails[i].supplierId][i]

\* C16: for every booking whose token id is not 0 and every caller who is
\* admin or the booking's owner, toggleNFTStatus is accepted exactly when the
\* current time is less than T - L, the difference of the integers (so it is
\* rejected at T - L, after it, and whenever L exceeds T); and a
\* toggleNFTStatus that goes through does so before T - L.
C16_ToggleBeforeLock ==
    /\ [](\A i \in BookingIdSet, c \in Callers :
             (TokenId(i) # 0 /\ (hasAdminRole(c) \/ c = Owner(i))) =>
                 (toggleNFTStatusRequires(c, i) <=> now < C16_T(i) - C16_L(i)))
    /\ [][Did("toggleNFTStatus") =>
             now < C16_T(last'.ids[1]) - C16_L(last'.ids[1])]_vars

\* A toggleNFTStatus went through, and the lock set since puts the current
\* time at T - L or leaves T below L.
C16_Witness ==
    /\ last.op = "toggleNFTStatus"
    /\ \/ now = C16_T(last.ids[1]) - C16_L(last.ids[1])
       \/ C16_L(last.ids[1]) > C16_T(last.ids[1])

\* ---------------------------------------------------------------------- C17
\* C17: toggleNFTStatus is rejected for every caller who is neither admin nor
\* the owner recorded in the booking, and for every booking (or id without a
\* booking) whose token id is 0; one that goes through sets the flag of the
\* token id on the ledger of the supplier recorded in the booking to the
\* status of the call and changes nothing else; and no flag changes in a step
\* that is neither a toggleNFTStatus nor a confirmRoom.
C17_ToggleAccess ==
    /\ [](\A i \in 0..MaxBookings, c \in Callers :
             (~(hasAdminRole(c) \/ c = Booking(i).owner) \/ Booking(i).tokenID = 0)
                 => ~toggleNFTStatusRequires(c, i))
    /\ [][Did("toggleNFTStatus") =>
             LET i == last'.ids[1]
                 sc == Ledger(BookingDetails[i].supplierId)
             IN  /\ transferable' = [transferable EXCEPT ![sc][i] = last'.flag]
                 /\ UNCHANGED <<orchVars, balances, bookingTickets, details,
                                approvals, utilVars, cur, now>>]_vars
    /\ [][transferable' # transferable =>
             Did("toggleNFTStatus") \/ Did("confirmRoom")]_vars

\* A toggleNFTStatus has set the flag on the ledger of the booking's supplier
\* while the booking's token is held on the ledger of another.
C17_Witness ==
    /\ last.op = "toggleNFTStatus" /\ last.flag
    /\ transferable[Ledger(last.sup)][last.ids[1]]
    /\ \E s \in SupplierIdSet :
          /\ s # last.sup
          /\ balances[s][last.ids[1]][Owner(last.ids[1])] = 1
          /\ ~transferable[s][last.ids[1]]

\* ---------------------------------------------------------------------- C18
\* A call, by caller c, of one of the functions reserved to the admin.
C18_Call(c) ==
    \/ \E o \in SupplierOwners : RegisterSupplier(c, o)
    \/ \E s \in SupplierArgs, ids \in ShortBatches : Checkout(c, s, ids)
    \/ \E s \in SupplierArgs, i \in BookingIdSet, a \in CancelAmounts :
          CancelRoom(c, s, i, a[1], a[2], a[3])
    \/ \E s \in SupplierArgs, ids \in ShortBatches, o \in Users :
          BookingRefund(c, s, ids, o)
    \/ \E p \in Commissions : SetCommission(c, p)
    \/ \E s \in SupplierIdSet, i \in BookingIdSet, h \in LockSamples :
          SetTransferLock(c, s, i, h)
    \/ \E t \in TreasuryAddrs : SetTreasury(c, t)
    \/ SetDeployers(c, ZERO, ZERO)
    \/ \E s \in SupplierArgs, n \in Names : UpdateSupplierDetails(c, s, n)

\* C18: in every reachable state, a call of registerSupplier, checkout,
\* cancelRoom, bookingRefund, setCommission, setTransferLock, setTreasury,
\* setDeployers or updateSupplierDetails by an account without the admin role
\* can change nothing: not the booking table, the supplier table, the
\* configuration or any ledger.
C18_AdminOnly ==
    \A c \in Users : ~ENABLED (C18_Call(c) /\ ~UNCHANGED stateVars)

\* A state where each of these calls by the admin goes through: the deployers
\* are set, a supplier is registered, a booking is booked and another is
\* confirmed.
C18_Witness ==
    /\ deployers[1] # ZERO /\ Supplier(1).status /\ supplierIds < MaxSuppliers
    /\ \E i, j \in BookingIdSet :
          /\ Status(i) = "booked" /\ Status(j) = "confirmed"
          /\ Owner(i) \in Users /\ Owner(j) \in Users
          /\ cancelRoom(ADMIN, 1, j).ok

\* ---------------------------------------------------------------------- C19
\* C19 as stated: every batch operation rejects a batch of 11: bookRoom with
\* a count of 11, confirmRoom, checkout and bookingRefund with 11 ids, and
\* the token ledger's batch transfer with 11 ids, whatever the caller, the
\* supplier and the state.
C19_BatchesOverTenRejected ==
    \A c \in Callers, s \in SupplierArgs, o \in Callers :
        LET ids == LongBatch(BatchLimit)
        IN  /\ bookRoomReverts(s, BatchLimit, [i \in 1..BatchLimit |-> 100],
                               [i \in 1..BatchLimit |-> 100])
            /\ ~confirmRoomRequires(c, s, ids, UrisMatching(ids))
            /\ ~checkoutRequires(c, s, ids)
            /\ ~bookingRefundRequires(c, s, ids, o)
            /\ ~safeBatchTransferFromRequires(c, s, o, c, ids, Ones(ids))

\* ---------------------------------------------------------------------- C21
\* C21: the supplier ids up to the counter, and no others, have an active
\* record, which carries its id; two records have different token ledgers
\* and different utility ledgers; a registerSupplier that goes through takes
\* the id after the counter, which had no record; and no step of any
\* operation changes an active record.
C21_SupplierRecords ==
    /\ [](\A s \in SupplierIdSet :
             /\ s <= supplierIds <=> Suppliers[s].status
             /\ Suppliers[s].status => Suppliers[s].id = s
             /\ \A r \in SupplierIdSet :
                   (Suppliers[s].status /\ Suppliers[r].status /\ s # r) =>
                       /\ Suppliers[s].supplier_contract # Suppliers[r].supplier_contract
                       /\ Suppliers[s].utility_contract # Suppliers[r].utility_contract)
    /\ [][\A s \in SupplierIdSet :
             Suppliers[s].status => Suppliers'[s] = Suppliers[s]]_vars
    /\ [][Did("registerSupplier") =>
             /\ supplierIds' = supplierIds + 1
             /\ last'.sup = supplierIds + 1
             /\ Suppliers[last'.sup] = NilSupplier
             /\ Suppliers'[last'.sup].status]_vars

\* Two suppliers are registered, and a booking has since been cancelled by
\* cancelRoom.
C21_Witness ==
    /\ supplierIds = 2 /\ Suppliers[1].status /\ Suppliers[2].status
    /\ last.op = "cancelRoom"

\* ---------------------------------------------------------------------- C22
\* A call of one of the five booking functions with supplier id s; those of
\* bookRoom are by the accounts of the currency ledger.
C22_Call(s) ==
    \E c \in Callers :
        \/ \E n \in 0..MaxBatch, o \in Paid :
              /\ c \in Users
              /\ BookRoom(c, s, n, [i \in 1..n |-> 100], [i \in 1..n |-> 100],
                          7200, 10800, o)
        \/ \E ids \in ShortBatches, st \in BOOLEAN :
              ConfirmRoom(c, s, ids, UrisMatching(ids), st)
        \/ \E ids \in ShortBatches : Checkout(c, s, ids)
        \/ \E i \in BookingIdSet, a \in CancelAmounts :
              CancelRoom(c, s, i, a[1], a[2], a[3])
        \/ \E ids \in ShortBatches, o \in Users : BookingRefund(c, s, ids, o)

\* C22: in every reachable state and for every supplier id without an active
\* record, no call of bookRoom, confirmRoom, checkout, cancelRoom or
\* bookingRefund with that id, by any caller, changes anything: no booking,
\* no balance of the currency ledger, no refund instruction, no ledger.
C22_InactiveSupplierRejected ==
    \A s \in SupplierArgs :
        ~Supplier(s).status => ~ENABLED (C22_Call(s) /\ ~UNCHANGED <<stateVars, last>>)

\* One supplier is registered and the other is not, while one booking is
\* booked and another confirmed.
C22_Witness ==
    /\ supplierIds = 1 /\ Supplier(1).status /\ ~Supplier(2).status
    /\ \E i, j \in BookingIdSet : Status(i) = "booked" /\ Status(j) = "confirmed"

\* ---------------------------------------------------------------------- C23
\* A direct call, by caller c, of a gated function of a token ledger.
C23_Call(c) ==
    \E s \in SupplierIdSet, i \in BookingIdSet, a \in Callers :
        \/ \E st \in BOOLEAN : SupplierMint(c, s, i, a, 1, "a", st)
        \/ \E ut \in BOOLEAN : SupplierBurn(c, s, a, i, 1, ut)
        \/ SupplierSetURI(c, s, i, "b")
        \/ \E st \in BOOLEAN : SupplierToggleNFTStatus(c, s, i, st)

\* C23: in every reachable state, no account other than the factory, be it a
\* token holder, the admin or a supplier owner, holds the factory capability
\* of a token ledger, and no call by such an account of mint, burn, setURI or
\* toggleNFTStatus on a token ledger changes a balance, a uri, a flag or
\* anything else.
C23_LedgerGated ==
    \A c \in Outsiders :
        /\ ~hasFactoryRole(c)
        /\ ~ENABLED (C23_Call(c) /\ ~UNCHANGED stateVars)

\* A holder has a token with a uri on the ledger of a registered supplier.
C23_Witness ==
    \E i \in BookingIdSet :
        /\ Suppliers[1].status
        /\ balances[1][i]["u1"] = 1
        /\ bookingTickets[1][i] # ""

\* ---------------------------------------------------------------------- C24
\* C24: in every reachable state the supplier role of the utility ledger of
\* a registered supplier is held by the token ledger of that supplier and by
\* no account, not the admin, the factory, a supplier owner or a holder; no
\* direct call of mint on a utility ledger by any of these changes anything;
\* and a utility balance grows only in a checkout, on the utility ledger
\* paired with the token ledger the checkout burns on, for the holder and
\* token id burned there.
C24_UtilityMintOnlyInBurn ==
    /\ [](\A s \in SupplierIdSet : Suppliers[s].status =>
             /\ hasSupplierContractRole(Suppliers[s].utility_contract,
                                        LedgerAddr(Suppliers[s].supplier_contract))
             /\ \A r \in SupplierIdSet : r # s =>
                   ~hasSupplierContractRole(Suppliers[s].utility_contract, LedgerAddr(r))
             /\ \A c \in Outsiders \cup {FACTORY} :
                   ~hasSupplierContractRole(Suppliers[s].utility_contract, c))
    /\ [](\A c \in Outsiders \cup {FACTORY} :
             ~ENABLED (/\ \E u \in SupplierIdSet, i \in BookingIdSet, a \in Callers :
                             UtilityMintCall(c, u, a, i, 1, "a")
                       /\ ~UNCHANGED stateVars))
    /\ [][\A s \in SupplierIdSet, i \in BookingIdSet, a \in Callers :
             utilBalances'[s][i][a] > utilBalances[s][i][a] =>
                 /\ Did("checkout")
                 /\ Suppliers[last'.sup].utility_contract = s
                 /\ balances'[Ledger(last'.sup)][i][a] < balances[Ledger(last'.sup)][i][a]]_vars

\* A checkout of one booking has issued its utility token, with the uri the
\* token had.
C24_Witness ==
    /\ last.op = "checkout" /\ Len(last.ids) = 1
    /\ utilBalances[Ledger(last.sup)][last.ids[1]][Owner(last.ids[1])] = 1
    /\ utilTickets[Ledger(last.sup)][last.ids[1]] # ""

\* ---------------------------------------------------------------------- C25
\* C25: on every token ledger, for every caller, sender, recipient, id and
\* batch, a transfer and a batch transfer are rejected when the caller is
\* neither the sender nor approved by the sender, and a batch transfer is
\* rejected when the flag of any id of the batch is false; so a batch
\* transfer that goes through has every flag of its batch true.
C25_TransferCallerAndFlags ==
    /\ [](\A s \in SupplierIdSet, c \in Callers, f \in Callers, t \in Callers :
             /\ ~(c = f \/ <<f, c>> \in approvals[s]) =>
                   /\ \A i \in BookingIdSet : ~safeTransferFromRequires(c, s, f, i, 1)
                   /\ \A ids \in ShortBatches :
                         ~safeBatchTransferFromRequires(c, s, f, t, ids, Ones(ids))
             /\ \A ids \in ShortBatches :
                   (\E k \in Items(ids) : ~transferable[s][ids[k]]) =>
                       ~safeBatchTransferFromRequires(c, s, f, t, ids, Ones(ids)))
    /\ [][Did("safeBatchTransferFrom") =>
             \A k \in Items(last'.ids) : transferable[last'.sup][last'.ids[k]]]_vars

\* A holder has two tokens on a ledger, one with a true flag and one with a
\* false flag.
C25_Witness ==
    \E i, j \in BookingIdSet :
        /\ balances[1][i]["u1"] = 1 /\ balances[1][j]["u1"] = 1
        /\ transferable[1][i] /\ ~transferable[1][j]

\* ---------------------------------------------------------------------- C26
\* C26: the lock of every pair is 0 at the start and changes only in a
\* setTransferLock by the admin, which sets the lock of its pair to 3600 times
\* its hours and changes no other lock; and while the lock of a booking with
\* a token is 0, toggleNFTStatus by the admin or the owner is accepted exactly
\* at the times strictly before check-in.
C26_LockDefaultAndSet ==
    /\ \A s \in SupplierIdSet, i \in BookingIdSet : TimeLocks[s][i] = 0
    /\ [](\A i \in BookingIdSet, c \in Callers :
             (TokenId(i) # 0 /\ (hasAdminRole(c) \/ c = Owner(i)) /\ C16_L(i) = 0) =>
                 (toggleNFTStatusRequires(c, i) <=> now < C16_T(i)))
    /\ [][TimeLocks' # TimeLocks =>
             \E s \in SupplierIdSet, i \in BookingIdSet, h \in LockSamples :
                 /\ SetTransferLock(ADMIN, s, i, h)
                 /\ TimeLocks' = [TimeLocks EXCEPT ![s][i] = 3600 * h]]_vars

\* A lock of one hour is set for one pair, every other lock is 0, and a
\* toggleNFTStatus has gone through.
C26_Witness ==
    /\ last.op = "toggleNFTStatus"
    /\ \E s \in SupplierIdSet, i \in BookingIdSet :
          /\ TimeLocks[s][i] = 3600
          /\ \A r \in SupplierIdSet, j \in BookingIdSet :
                <<r, j>> # <<s, i>> => TimeLocks[r][j] = 0

\* ---------------------------------------------------------------------- C27
\* C27 as stated: a booking created by a bookRoom that returned false is not
\* confirmed by the confirmRoom that follows it.
C27_ConfirmedWasPaid ==
    [][(Did("confirmRoom") /\ last.op = "bookRoom" /\ last.res = "false") =>
          \A k \in Items(last'.ids), j \in Items(last.ids) :
              last'.ids[k] # last.ids[j]]_vars

\* ---------------------------------------------------------------------- C28
\* The sum, over the bookings a batch names, each counted once, of
\* total + floor(baseRate * commission / 100).
RECURSIVE C28_Due(_, _)
C28_Due(ids, n) ==
    IF n = 0 THEN 0
    ELSE C28_Due(ids, n - 1)
             + IF \E k \in Items(ids) : ids[k] = n
               THEN BookingDetails[n].total
                        + (BookingDetails[n].baseRate * commission) \div 100
               ELSE 0

\* C28 as stated: a bookingRefund refunds each booking of its batch once,
\* however often the batch names it; it refunds no booking of a bookRoom that
\* returned false; and a bookingRefund of the bookings of the bookRoom before
\* it refunds what that bookRoom collected, whatever the commission is now.
C28_RefundAtMostCollected ==
    /\ [][Did("bookingRefund") =>
             last'.refunds[1].amount <= C28_Due(last'.ids, MaxBookings)]_vars
    /\ [][(Did("bookingRefund") /\ last.op = "bookRoom" /\ last.res = "false") =>
             \A k \in Items(last'.ids), j \in Items(last.ids) :
                 last'.ids[k] # last.ids[j]]_vars
    /\ [][(Did("bookingRefund") /\ last.op = "bookRoom" /\ last.res = "ok"
              /\ last'.ids = last.ids) =>
             last'.refunds[1].amount = last.xfers[1].amount + last.xfers[2].amount]_vars

\* ---------------------------------------------------------------------- C29
\* The units of token id i over the holders a of the ledgers s.
RECURSIVE C29_Sum(_, _)
C29_Sum(f, S) ==
    IF S = {} THEN 0
    ELSE LET x == CHOOSE y \in S : TRUE IN f[x] + C29_Sum(f, S \ {x})

C29_Supply(i) ==
    C29_Sum([p \in SupplierIdSet \X Callers |-> balances[p[1]][i][p[2]]],
            SupplierIdSet \X Callers)

\* C29 as stated: in every reachable state the supply of every token id,
\* over all holders and all token ledgers, is 1 while the booking is
\* confirmed and 0 otherwise.
C29_SupplyOneIffConfirmed ==
    \A i \in BookingIdSet :
        C29_Supply(i) = IF Status(i) = "confirmed" THEN 1 ELSE 0

\* ---------------------------------------------------------------------- C30
\* C30 as stated: a unit of the token of a booking is only ever held on the
\* token ledger of the supplier recorded in the booking, and a step changes
\* the balances of a token only on that ledger.
C30_TokensOnOwnLedger ==
    /\ [](\A s \in SupplierIdSet, i \in BookingIdSet, a \in Callers :
             balances[s][i][a] > 0 => Ledger(BookingDetails[i].supplierId) = s)
    /\ [][\A s \in SupplierIdSet, i \in BookingIdSet :
             balances'[s][i] # balances[s][i] =>
                 Ledger(BookingDetails'[i].supplierId) = s]_vars

\* ---------------------------------------------------------------------- C31
\* C31 as stated: in every reachable state, for every confirmed booking, the
\* owner recorded in the booking holds at least 1 unit of its token on the
\* ledger of the booking's supplier, and a checkout and a cancelRoom of the
\* booking by the admin, with the booking's supplier id, go through.
C31_ConfirmedCanBeClosed ==
    \A i \in BookingIdSet :
        Status(i) = "confirmed" =>
            LET s == BookingDetails[i].supplierId
            IN  /\ balances[Ledger(s)][i][Owner(i)] >= 1
                /\ ENABLED (Checkout(ADMIN, s, <<i>>)
                               /\ BookingDetails'[i].status = "expired")
                /\ ENABLED (\E a \in CancelAmounts :
                               /\ CancelRoom(ADMIN, s, i, a[1], a[2], a[3])
                               /\ BookingDetails'[i].status = "cancelled")

\* ---------------------------------------------------------------------- C32
\* C32 as stated: no transfer a bookRoom issues has the treasury as its
\* sender; one whose sender is the wallet follows a commission transfer of
\* the same call that succeeded, and is of its amount; and the balances of
\* the treasury and of the wallet are not lower after a bookRoom than before.
C32_BookRoomTakesNothingBack ==
    [][Did("bookRoom") =>
          /\ \A k \in Items(last'.xfers) :
                /\ last'.xfers[k].from # treasury
                /\ last'.xfers[k].from = BUK_WALLET =>
                      /\ last'.xfers[1].ok
                      /\ last'.xfers[k].amount = last'.xfers[1].amount
          /\ cur'[treasury] >= cur[treasury]
          /\ cur'[BUK_WALLET] >= cur[BUK_WALLET]]_vars

\* ---------------------------------------------------------------------- C33
\* The units of utility token id i over the holders of the utility ledgers.
C33_Supply(i) ==
    C29_Sum([p \in SupplierIdSet \X Callers |-> utilBalances[p[1]][i][p[2]]],
            SupplierIdSet \X Callers)

\* C33 as stated: in every reachable state the supply of every utility token
\* id, over all holders and all utility ledgers, is 1 while the booking is
\* expired, the unit being held by the owner recorded in the booking, and 0
\* while it is booked, confirmed, cancelled or not created.
C33_UtilityOneIffExpired ==
    \A i \in BookingIdSet :
        IF Status(i) = "expired"
        THEN /\ C33_Supply(i) = 1
             /\ \E s \in SupplierIdSet : utilBalances[s][i][Owner(i)] = 1
        ELSE C33_Supply(i) = 0

\* ---------------------------------------------------------------------- C34
\* C34: in every step, a booking record that exists (its id is at most the
\* counter) keeps its id, owner, supplier id, check-in, check-out, total and
\* base rate, and stays a record; and a step that changes any field of any
\* record is a bookRoom, confirmRoom, checkout, cancelRoom or bookingRefund
\* that went through.
C34_BookingFieldsFixed ==
    [][\A i \in BookingIdSet :
          LET b == BookingDetails[i]
              a == BookingDetails'[i]
          IN  /\ i <= bookingIds =>
                    /\ a.id = b.id /\ b.id = i
                    /\ a.owner = b.owner
                    /\ a.supplierId = b.supplierId
                    /\ a.checkin = b.checkin
                    /\ a.checkout = b.checkout
                    /\ a.total = b.total
                    /\ a.baseRate = b.baseRate
                    /\ a.status # "nil"
              /\ a # b =>
                    \/ Did("bookRoom") \/ Did("confirmRoom") \/ Did("checkout")
                    \/ Did("cancelRoom") \/ Did("bookingRefund")]_vars

\* One booking has expired in a checkout and another was cancelled, and the
\* token of a booking has since been transferred.
C34_Witness ==
    /\ \E i, j \in BookingIdSet : Status(i) = "expired" /\ Status(j) = "cancelled"
    /\ last.op = "safeTransferFrom"

====
